---- MODULE Spec2Model ----
(***************************************************************************)
(* State machine of the application model in src/app.rs: the fields of     *)
(* AppModel, one action per arm of AppModel::update, the subscription      *)
(* reconciliation of AppModel::subscription and the watch producer task.   *)
(*                                                                         *)
(* Text the user types or the program generates character by character     *)
(* (number, password) is a sequence of one-character strings, so that      *)
(* parsing works on the characters.  Text the program only formats for     *)
(* display (feedback, attempts) is a string built with \o.  The emoji that *)
(* start the feedback texts are written as their code points, "(U+2705)".  *)
(***************************************************************************)
EXTENDS Integers, Sequences, FiniteSets, TLC

VARIABLES
    time,             \* AppModel.time: u32
    watch_is_active,  \* AppModel.watch_is_active
    value_counter,    \* AppModel.value_counter: i64
    password,         \* AppModel.password
    secret_number,    \* AppModel.secret_number
    number,           \* AppModel.number (the guess text field)
    feedback,         \* AppModel.feedback
    attempts_counter, \* AppModel.attempts_counter
    attempts,         \* AppModel.attempts (the displayed text)
    show_context,     \* core.window.show_context
    config,           \* AppModel.config
    panicked,         \* update has panicked: the process is gone
    stderr,           \* update has written an error line with eprintln!
    net,              \* single Increment minus single Decrement messages applied
    runs,             \* 1 after IncrementRun, -1 after DecrementRun, else 0
    message,          \* the Message most recently matched by update
    producer,         \* whether the watch stream of subscription() is alive
    ptime,            \* the producer task's local `time`
    channel,          \* WatchTick values sent by the producer, not yet applied
    sent,             \* values the live producer has sent since it was started
    won               \* guess texts CheckNumber found right, in order, since secret_number was chosen

vars == <<time, watch_is_active, value_counter, password, secret_number, number,
          feedback, attempts_counter, attempts, show_context, config, message,
          producer, ptime, channel, sent, panicked, stderr, net, runs, won>>

watchVars == <<time, watch_is_active, producer, ptime, channel, sent>>
counterVars == <<value_counter, net, runs>>
passwordVars == <<password>>
gameVars == <<secret_number, number, feedback, attempts_counter, attempts, won>>
shellVars == <<show_context, config, panicked, stderr>>

(***************************************************************************)
(* Bounds of the model.                                                    *)
(***************************************************************************)
MaxAttempts == 3
MaxTick == 3
MaxInFlight == 2
MaxCounter == 2
SessionDepth == 1

(***************************************************************************)
(* Program constants.                                                      *)
(***************************************************************************)
SecretMin == 1
SecretMax == 100
PasswordLen == 16

(***************************************************************************)
(* Characters and integer formatting (Display for i64, used by format!).   *)
(***************************************************************************)
DigitChars == <<"0", "1", "2", "3", "4", "5", "6", "7", "8", "9">>

IsDigit(c) == \E d \in 1..10 : DigitChars[d] = c

DigitVal(c) == (CHOOSE d \in 1..10 : DigitChars[d] = c) - 1

RECURSIVE NatToChars(_)
NatToChars(n) ==
    IF n < 10 THEN <<DigitChars[n + 1]>>
    ELSE Append(NatToChars(n \div 10), DigitChars[(n % 10) + 1])

\* i64::to_string as a sequence of characters
I64ToChars(n) == IF n < 0 THEN <<"-">> \o NatToChars(-n) ELSE NatToChars(n)

RECURSIVE Concat(_)
Concat(cs) == IF cs = <<>> THEN "" ELSE Head(cs) \o Concat(Tail(cs))

\* i64::to_string as display text
I64ToString(n) == Concat(I64ToChars(n))

(***************************************************************************)
(* str::parse::<i64>: an optional sign, then one or more ASCII digits, no  *)
(* surrounding whitespace, the value within the range of i64.  The value   *)
(* is kept as sign and magnitude digits (without leading zeros), since     *)
(* i64 is wider than the integers of the model checker.                    *)
(***************************************************************************)
I64MaxDigits == <<9,2,2,3,3,7,2,0,3,6,8,5,4,7,7,5,8,0,7>>
I64MinDigits == <<9,2,2,3,3,7,2,0,3,6,8,5,4,7,7,5,8,0,8>>

RECURSIVE StripZeros(_)
StripZeros(ds) ==
    IF ds # <<>> /\ Head(ds) = 0 THEN StripZeros(Tail(ds)) ELSE ds

\* lexicographic a <= b for digit sequences of equal length
RECURSIVE DigitsLeq(_, _)
DigitsLeq(a, b) ==
    IF a = <<>> THEN TRUE
    ELSE IF Head(a) # Head(b) THEN Head(a) < Head(b)
    ELSE DigitsLeq(Tail(a), Tail(b))

FitsI64(neg, mag) ==
    \/ Len(mag) < Len(I64MaxDigits)
    \/ /\ Len(mag) = Len(I64MaxDigits)
       /\ DigitsLeq(mag, IF neg THEN I64MinDigits ELSE I64MaxDigits)

ParseErr == [ok |-> FALSE, neg |-> FALSE, mag |-> <<>>]

ParseI64(src) ==
    IF src = <<>> THEN ParseErr
    ELSE LET signed == Head(src) \in {"+", "-"}
             neg    == Head(src) = "-"
             digits == IF signed THEN Tail(src) ELSE src
         IN  IF digits = <<>> THEN ParseErr
             ELSE IF \E i \in 1..Len(digits) : ~IsDigit(digits[i]) THEN ParseErr
             ELSE LET mag == StripZeros([i \in 1..Len(digits) |-> DigitVal(digits[i])])
                  IN  IF FitsI64(neg, mag)
                      THEN [ok |-> TRUE, neg |-> neg /\ mag # <<>>, mag |-> mag]
                      ELSE ParseErr

RECURSIVE MagValue(_)
MagValue(mag) ==
    IF mag = <<>> THEN 0 ELSE 10 * MagValue(SubSeq(mag, 1, Len(mag) - 1)) + mag[Len(mag)]

\* Compare with the equality test after a `<=` test, so that it is never reached.
CompareLeqFirst(num, secret) ==
    IF Len(num.mag) <= 9
    THEN LET v == IF num.neg THEN - MagValue(num.mag) ELSE MagValue(num.mag)
         IN  IF v <= secret THEN "Less"
             ELSE IF v = secret THEN "Equal" ELSE "Greater"
    ELSE IF num.neg THEN "Less" ELSE "Greater"

\* Compare with the two hints exchanged.
CompareSwapped(num, secret) ==
    IF Len(num.mag) <= 9
    THEN LET v == IF num.neg THEN - MagValue(num.mag) ELSE MagValue(num.mag)
         IN  IF v = secret THEN "Equal"
             ELSE IF v < secret THEN "Greater" ELSE "Less"
    ELSE IF num.neg THEN "Greater" ELSE "Less"

\* How the parsed guess compares with the secret (a value in 1..100):
\* the tests `num == secret` and `num < secret` of CheckNumber.
Compare(num, secret) ==
    IF Len(num.mag) <= 9
    THEN LET v == IF num.neg THEN - MagValue(num.mag) ELSE MagValue(num.mag)
         IN  IF v = secret THEN "Equal"
             ELSE IF v < secret THEN "Less" ELSE "Greater"
    ELSE IF num.neg THEN "Less" ELSE "Greater"

(***************************************************************************)
(* Display texts.                                                          *)
(***************************************************************************)
InitialFeedback == "A number from 1 to 100 is hidden. Guess it!"
NewGameFeedback == "A new number has been guessed. Guess it!"
HigherFeedback == "(U+23EB) My number is higher!"
LessFeedback == "(U+23EC) My number is less!"
InvalidFeedback == "(U+274C) Enter a number!"

RightFeedback(secret) == "(U+2705) Right! This is the number " \o I64ToString(secret)

\* the text formatted from the count before `+= 1`
AttemptsTextStale(n) == "Number of attempts: " \o I64ToString(n - 1)

AttemptsText(n) == "Number of attempts: " \o I64ToString(n)

(***************************************************************************)
(* Texts the user can type into the guess field.                           *)
(***************************************************************************)
GuessInts == {-5, 0, 1, 2, 50, 99, 100, 101, 200}

I64MaxText == [i \in 1..19 |-> DigitChars[I64MaxDigits[i] + 1]]
I64MinText == <<"-">> \o [i \in 1..19 |-> DigitChars[I64MinDigits[i] + 1]]
I64OverflowText == [i \in 1..19 |-> DigitChars[I64MinDigits[i] + 1]]

\* texts that spell an integer other than with to_string, with the integer
SpelledInts ==
    { [text |-> <<"+", "7">>, val |-> 7],
      [text |-> <<"0", "0", "7">>, val |-> 7],
      [text |-> <<"-", "0">>, val |-> 0],
      [text |-> <<"+", "1", "0", "0">>, val |-> 100] }

InvalidTexts ==
    { <<>>, <<"a", "b", "c">>, <<"-">>, <<"+">>, <<" ", "5">>, <<"5", " ">>,
      <<"5", "0", "a">>, <<"1", ".", "5">>, <<"+", "-", "5">>, <<"1", "e", "2">>,
      I64OverflowText }

GuessTexts ==
    { I64ToChars(g) : g \in GuessInts } \cup { r.text : r \in SpelledInts }
        \cup { I64MaxText, I64MinText } \cup InvalidTexts

(***************************************************************************)
(* i64 arithmetic for value_counter.  An i64 is its two's complement bit   *)
(* pattern in four 16-bit limbs, most significant first, since the         *)
(* integers of the model checker are narrower than 64 bits.                *)
(***************************************************************************)
LimbBase == 65536

I64Zero == <<0, 0, 0, 0>>
I64Max == <<32767, 65535, 65535, 65535>>
I64Min == <<32768, 0, 0, 0>>

\* i64::wrapping_add
WrappingAdd(a, b) ==
    LET s4 == a[4] + b[4]
        s3 == a[3] + b[3] + (s4 \div LimbBase)
        s2 == a[2] + b[2] + (s3 \div LimbBase)
        s1 == a[1] + b[1] + (s2 \div LimbBase)
    IN  <<s1 % LimbBase, s2 % LimbBase, s3 % LimbBase, s4 % LimbBase>>

IsNegative(a) == a[1] >= LimbBase \div 2

\* the i64 of an integer n with |n| < 2^16
I64FromInt(n) ==
    IF n >= 0 THEN <<0, 0, 0, n>>
    ELSE <<LimbBase - 1, LimbBase - 1, LimbBase - 1, LimbBase + n>>

\* a + b is outside the range of i64 (i64::checked_add returns None)
AddOverflows(a, b) ==
    /\ IsNegative(a) = IsNegative(b)
    /\ IsNegative(WrappingAdd(a, b)) # IsNegative(a)

Init ==
    /\ time = 0
    /\ watch_is_active = FALSE
    /\ value_counter = I64Zero
    /\ password = <<>>
    /\ secret_number \in SecretMin..SecretMax
    /\ number = <<>>
    /\ feedback = InitialFeedback
    /\ attempts_counter = 0
    /\ attempts = "Number of attempts: 0"
    /\ show_context = FALSE
    /\ config = "default"
    /\ message = "none"
    /\ producer = FALSE
    /\ ptime = 0
    /\ channel = <<>>
    /\ sent = <<>>
    /\ panicked = FALSE
    /\ stderr = FALSE
    /\ net = 0
    /\ runs = 0
    /\ won = <<>>

(***************************************************************************)
(* AppModel::update, the arms of the guessing game.                        *)
(***************************************************************************)
InputNumber(v) ==
    /\ message' = "InputNumber"
    /\ ~panicked
    /\ number' = v
    /\ UNCHANGED <<secret_number, feedback, attempts_counter, attempts, won>>
    /\ UNCHANGED <<watchVars, counterVars, passwordVars, shellVars>>

\* ClearNumber that also starts the count of attempts again
ClearNumberResets ==
    /\ message' = "ClearNumber"
    /\ ~panicked
    /\ number' = <<>>
    /\ attempts_counter' = 0
    /\ attempts' = "Number of attempts: 0"
    /\ UNCHANGED <<secret_number, feedback, won>>
    /\ UNCHANGED <<watchVars, counterVars, passwordVars, shellVars>>

ClearNumber ==
    /\ message' = "ClearNumber"
    /\ ~panicked
    /\ number' = <<>>
    /\ UNCHANGED <<secret_number, feedback, attempts_counter, attempts, won>>
    /\ UNCHANGED <<watchVars, counterVars, passwordVars, shellVars>>

\* CheckNumber with the attempt counted after the match, for every outcome.
CheckNumberCountsInvalid ==
    LET num == ParseI64(number) IN
    /\ message' = "CheckNumber"
    /\ ~panicked
    /\ attempts_counter < MaxAttempts
    /\ feedback' = IF ~num.ok THEN InvalidFeedback
                   ELSE CASE Compare(num, secret_number) = "Equal" -> RightFeedback(secret_number)
                          [] Compare(num, secret_number) = "Less" -> HigherFeedback
                          [] OTHER -> LessFeedback
    /\ attempts_counter' = attempts_counter + 1
    /\ attempts' = AttemptsText(attempts_counter')
    /\ won' = IF num.ok /\ Compare(num, secret_number) = "Equal"
              THEN Append(won, number) ELSE won
    /\ UNCHANGED <<secret_number, number>>
    /\ UNCHANGED <<watchVars, counterVars, passwordVars, shellVars>>

\* CheckNumber that ends the game on a right guess: a new number is chosen.
CheckNumberEndsGame ==
    LET num == ParseI64(number) IN
    /\ message' = "CheckNumber"
    /\ ~panicked
    /\ IF num.ok
       THEN /\ attempts_counter < MaxAttempts
            /\ feedback' = CASE Compare(num, secret_number) = "Equal" -> RightFeedback(secret_number)
                              [] Compare(num, secret_number) = "Less" -> HigherFeedback
                              [] OTHER -> LessFeedback
            /\ attempts_counter' = attempts_counter + 1
            /\ attempts' = AttemptsText(attempts_counter')
            /\ IF Compare(num, secret_number) = "Equal"
               THEN /\ won' = Append(won, number)
                    /\ secret_number' \in SecretMin..SecretMax
               ELSE UNCHANGED <<won, secret_number>>
       ELSE /\ feedback' = InvalidFeedback
            /\ UNCHANGED <<attempts_counter, attempts, won, secret_number>>
    /\ UNCHANGED number
    /\ UNCHANGED <<watchVars, counterVars, passwordVars, shellVars>>

CheckNumber ==
    LET num == ParseI64(number) IN
    /\ message' = "CheckNumber"
    /\ ~panicked
    /\ IF num.ok
       THEN /\ attempts_counter < MaxAttempts
            /\ feedback' = CASE Compare(num, secret_number) = "Equal" -> RightFeedback(secret_number)
                              [] Compare(num, secret_number) = "Less" -> HigherFeedback
                              [] OTHER -> LessFeedback
            /\ attempts_counter' = attempts_counter + 1
            /\ attempts' = AttemptsText(attempts_counter')
            /\ won' = IF Compare(num, secret_number) = "Equal"
                      THEN Append(won, number) ELSE won
       ELSE /\ feedback' = InvalidFeedback
            /\ UNCHANGED <<attempts_counter, attempts, won>>
    /\ UNCHANGED <<secret_number, number>>
    /\ UNCHANGED <<watchVars, counterVars, passwordVars, shellVars>>

\* NewGame with gen_range(0..100)
NewGameFromZero ==
    /\ message' = "NewGame"
    /\ ~panicked
    /\ secret_number' \in 0..(SecretMax - 1)
    /\ number' = <<>>
    /\ won' = <<>>
    /\ attempts_counter' = 0
    /\ feedback' = NewGameFeedback
    /\ attempts' = "Number of attempts: 0"
    /\ UNCHANGED <<watchVars, counterVars, passwordVars, shellVars>>

\* NewGame without the reset of the attempts.
NewGameKeepsAttempts ==
    /\ message' = "NewGame"
    /\ ~panicked
    /\ secret_number' \in SecretMin..SecretMax
    /\ number' = <<>>
    /\ won' = <<>>
    /\ feedback' = NewGameFeedback
    /\ UNCHANGED <<attempts_counter, attempts>>
    /\ UNCHANGED <<watchVars, counterVars, passwordVars, shellVars>>

\* NewGame without a new feedback text.
NewGameKeepsFeedback ==
    /\ message' = "NewGame"
    /\ ~panicked
    /\ secret_number' \in SecretMin..SecretMax
    /\ number' = <<>>
    /\ won' = <<>>
    /\ attempts_counter' = 0
    /\ attempts' = "Number of attempts: 0"
    /\ UNCHANGED feedback
    /\ UNCHANGED <<watchVars, counterVars, passwordVars, shellVars>>

NewGame ==
    /\ message' = "NewGame"
    /\ ~panicked
    /\ secret_number' \in SecretMin..SecretMax
    /\ number' = <<>>
    /\ won' = <<>>
    /\ attempts_counter' = 0
    /\ feedback' = NewGameFeedback
    /\ attempts' = "Number of attempts: 0"
    /\ UNCHANGED <<watchVars, counterVars, passwordVars, shellVars>>

NextGame ==
    \/ \E v \in GuessTexts : InputNumber(v)
    \/ ClearNumber
    \/ CheckNumber
    \/ NewGame

GameSpec == Init /\ [][NextGame]_vars

(***************************************************************************)
(* AppModel::update, the arms of the password page.                        *)
(***************************************************************************)
CHARSET ==
    <<"a", "b", "c", "d", "e", "f", "g", "h", "i", "j", "k", "l", "m",
      "n", "o", "p", "q", "r", "s", "t", "u", "v", "w", "x", "y", "z",
      "0", "1", "2", "3", "4", "5", "6", "7", "8", "9">>

\* Results of the successive rng.gen_range(0..CHARSET.len()) calls of one
\* GeneratePassword: every start index, with the later indices equal to it
\* or moving away from it in steps of 1 or 7 (modulo the range).
IndexDraws ==
    { [k \in 1..PasswordLen |-> (a + b * (k - 1)) % Len(CHARSET)] :
          a \in 0..(Len(CHARSET) - 1), b \in {0, 1, 7} }

\* Texts the user can type into the password field.
PasswordTexts ==
    { <<"a">>, <<"P", "w", "!">>,
      [k \in 1..PasswordLen |-> "A"],
      [k \in 1..(PasswordLen - 1) |-> "a"],
      [k \in 1..(PasswordLen + 1) |-> "a"] }

InputPassword(v) ==
    /\ message' = "InputPassword"
    /\ ~panicked
    /\ password' = v
    /\ UNCHANGED <<watchVars, counterVars, gameVars, shellVars>>

\* ClearPassword removing the last character only.
ClearPasswordPop ==
    /\ message' = "ClearPassword"
    /\ ~panicked
    /\ password' = IF password = <<>> THEN <<>> ELSE SubSeq(password, 1, Len(password) - 1)
    /\ UNCHANGED <<watchVars, counterVars, gameVars, shellVars>>

ClearPassword ==
    /\ message' = "ClearPassword"
    /\ ~panicked
    /\ password' = <<>>
    /\ UNCHANGED <<watchVars, counterVars, gameVars, shellVars>>

\* The collected characters with the range 0..=16.
CollectCharsInclusive(draw) ==
    [k \in 1..(PasswordLen + 1) |-> CHARSET[draw[((k - 1) % PasswordLen) + 1] + 1]]

\* (0..16).map(|_| CHARSET[idx] as char).collect()
CollectChars(draw) == [k \in 1..PasswordLen |-> CHARSET[draw[k] + 1]]

GeneratePassword(draw) ==
    /\ message' = "GeneratePassword"
    /\ ~panicked
    /\ password' = CollectChars(draw)
    /\ UNCHANGED <<watchVars, counterVars, gameVars, shellVars>>

NextPassword ==
    \/ \E v \in PasswordTexts : InputPassword(v)
    \/ ClearPassword
    \/ \E draw \in IndexDraws : GeneratePassword(draw)

PasswordSpec == Init /\ [][NextPassword]_vars

(***************************************************************************)
(* The watch.  AppModel::subscription is consulted by the runtime after    *)
(* update has returned; when the watch stream is newly part of the         *)
(* subscription its task is started, when it is no longer part of it the   *)
(* task is dropped.  The task sends WatchTick(time) for time = 1, 2, ...    *)
(* and the runtime hands the sent messages to update in order.  The local  *)
(* `time` is a u32; the model stops the task at MaxTick, far below 2^32.   *)
(***************************************************************************)
\* `let mut time = 1` with the session's elapsed time resumed instead
ProducerStartResumed == time + 1

\* `let mut time = 1`
ProducerStart == 1

\* ToggleWatch that switches the watch on, whatever it was
ToggleWatchSetsActive ==
    /\ message' = "ToggleWatch"
    /\ ~panicked
    /\ watch_is_active' = TRUE
    /\ UNCHANGED <<time, producer, ptime, channel, sent>>
    /\ UNCHANGED <<counterVars, passwordVars, gameVars, shellVars>>

\* ToggleWatch that also resets the watch
ToggleWatchResets ==
    /\ message' = "ToggleWatch"
    /\ ~panicked
    /\ watch_is_active' = ~watch_is_active
    /\ time' = 0
    /\ UNCHANGED <<producer, ptime, channel, sent>>
    /\ UNCHANGED <<counterVars, passwordVars, gameVars, shellVars>>

ToggleWatch ==
    /\ message' = "ToggleWatch"
    /\ ~panicked
    /\ watch_is_active' = ~watch_is_active
    /\ UNCHANGED <<time, producer, ptime, channel, sent>>
    /\ UNCHANGED <<counterVars, passwordVars, gameVars, shellVars>>

\* subscription() with the test `if !self.watch_is_active`
subscriptionInverted ==
    /\ message' = "none"
    /\ ~panicked
    /\ producer # ~watch_is_active
    /\ producer' = ~watch_is_active
    /\ IF ~watch_is_active
       THEN /\ ptime' = ProducerStart
            /\ UNCHANGED channel
       ELSE /\ ptime' = 0
            /\ \E k \in 0..Len(channel) : channel' = SubSeq(channel, 1, k)
    /\ sent' = <<>>
    /\ UNCHANGED <<time, watch_is_active>>
    /\ UNCHANGED <<counterVars, passwordVars, gameVars, shellVars>>

\* The runtime consults subscription().  Messages the dropped task has sent
\* and update has not yet received are lost or still delivered.
subscription ==
    /\ message' = "none"
    /\ ~panicked
    /\ producer # watch_is_active
    /\ producer' = watch_is_active
    /\ IF watch_is_active
       THEN /\ ptime' = ProducerStart
            /\ UNCHANGED channel
       ELSE /\ ptime' = 0
            /\ \E k \in 0..Len(channel) : channel' = SubSeq(channel, 1, k)
    /\ sent' = <<>>
    /\ UNCHANGED <<time, watch_is_active>>
    /\ UNCHANGED <<counterVars, passwordVars, gameVars, shellVars>>

\* One turn of the loop of the producer task:
\* interval.tick().await; emitter.send(WatchTick(time)).await; time += 1
ProducerTick ==
    /\ message' = "none"
    /\ ~panicked
    /\ producer
    /\ ptime <= MaxTick
    /\ Len(channel) < MaxInFlight
    /\ channel' = Append(channel, ptime)
    /\ sent' = Append(sent, ptime)
    /\ ptime' = ptime + 1
    /\ UNCHANGED <<time, watch_is_active, producer>>
    /\ UNCHANGED <<counterVars, passwordVars, gameVars, shellVars>>

\* WatchTick that counts the ticks itself
WatchTickIncrements ==
    /\ message' = "WatchTick"
    /\ ~panicked
    /\ channel # <<>>
    /\ time' = time + 1
    /\ channel' = Tail(channel)
    /\ UNCHANGED <<watch_is_active, producer, ptime, sent>>
    /\ UNCHANGED <<counterVars, passwordVars, gameVars, shellVars>>

\* update(Message::WatchTick(n)) for the oldest message in flight
WatchTick ==
    /\ message' = "WatchTick"
    /\ ~panicked
    /\ channel # <<>>
    /\ time' = Head(channel)
    /\ channel' = Tail(channel)
    /\ UNCHANGED <<watch_is_active, producer, ptime, sent>>
    /\ UNCHANGED <<counterVars, passwordVars, gameVars, shellVars>>

NextWatch ==
    \/ ToggleWatch
    \/ subscription
    \/ ProducerTick
    \/ WatchTick

WatchSpec == Init /\ [][NextWatch]_vars

(***************************************************************************)
(* AppModel::update, the arms of the counter.  `+= 1` and `-= 1` on an i64 *)
(* panic when the result is out of range in a build with overflow checks   *)
(* (the dev profile) and wrap in a build without (the release profile).    *)
(* A panic in update ends the process.                                     *)
(*                                                                         *)
(* The single messages keep the counter within MaxCounter of where it was  *)
(* after the last run.  IncrementRun and DecrementRun stand for RunUp      *)
(* Increment messages, or RunDown Decrement messages, in a row, none of    *)
(* which overflows: they take the counter next to i64::MAX and i64::MIN.   *)
(***************************************************************************)
Increment ==
    /\ message' = "Increment"
    /\ ~panicked
    /\ net < MaxCounter
    /\ IF AddOverflows(value_counter, I64FromInt(1))
       THEN \/ /\ panicked' = TRUE
               /\ UNCHANGED <<value_counter, net>>
            \/ /\ value_counter' = WrappingAdd(value_counter, I64FromInt(1))
               /\ net' = net + 1
               /\ UNCHANGED panicked
       ELSE /\ value_counter' = WrappingAdd(value_counter, I64FromInt(1))
            /\ net' = net + 1
            /\ UNCHANGED panicked
    /\ UNCHANGED <<runs, show_context, config, stderr>>
    /\ UNCHANGED <<watchVars, passwordVars, gameVars>>

Decrement ==
    /\ message' = "Decrement"
    /\ ~panicked
    /\ net > - MaxCounter
    /\ IF AddOverflows(value_counter, I64FromInt(-1))
       THEN \/ /\ panicked' = TRUE
               /\ UNCHANGED <<value_counter, net>>
            \/ /\ value_counter' = WrappingAdd(value_counter, I64FromInt(-1))
               /\ net' = net - 1
               /\ UNCHANGED panicked
       ELSE /\ value_counter' = WrappingAdd(value_counter, I64FromInt(-1))
            /\ net' = net - 1
            /\ UNCHANGED panicked
    /\ UNCHANGED <<runs, show_context, config, stderr>>
    /\ UNCHANGED <<watchVars, passwordVars, gameVars>>

\* i64::MAX - (MaxCounter - 1): the Increment messages of an IncrementRun
RunUp == WrappingAdd(I64Max, I64FromInt(1 - MaxCounter))

\* i64::MIN + (MaxCounter - 1): minus the Decrement messages of a DecrementRun
RunDown == WrappingAdd(I64Min, I64FromInt(MaxCounter - 1))

IncrementRun ==
    /\ message' = "IncrementRun"
    /\ ~panicked
    /\ runs = 0
    /\ ~AddOverflows(value_counter, RunUp)
    /\ value_counter' = WrappingAdd(value_counter, RunUp)
    /\ runs' = 1
    /\ UNCHANGED net
    /\ UNCHANGED <<watchVars, passwordVars, gameVars, shellVars>>

DecrementRun ==
    /\ message' = "DecrementRun"
    /\ ~panicked
    /\ runs = 0
    /\ ~AddOverflows(value_counter, RunDown)
    /\ value_counter' = WrappingAdd(value_counter, RunDown)
    /\ runs' = -1
    /\ UNCHANGED net
    /\ UNCHANGED <<watchVars, passwordVars, gameVars, shellVars>>

(***************************************************************************)
(* AppModel::update, the remaining arms.                                   *)
(***************************************************************************)
\* ContextPage has the single value About, so the toggled page is always
\* the current one.
ToggleContextPage ==
    /\ message' = "ToggleContextPage"
    /\ ~panicked
    /\ show_context' = ~show_context
    /\ UNCHANGED <<config, panicked, stderr>>
    /\ UNCHANGED <<watchVars, counterVars, passwordVars, gameVars>>

Configs == {"default", "changed"}

UpdateConfig(c) ==
    /\ message' = "UpdateConfig"
    /\ ~panicked
    /\ config' = c
    /\ UNCHANGED <<show_context, panicked, stderr>>
    /\ UNCHANGED <<watchVars, counterVars, passwordVars, gameVars>>

\* LaunchUrl with open::that_detached(&url).unwrap()
LaunchUrlUnwrap(opened) ==
    /\ message' = "LaunchUrl"
    /\ ~panicked
    /\ opened \in BOOLEAN
    /\ panicked' = ~opened
    /\ UNCHANGED <<show_context, config, stderr>>
    /\ UNCHANGED <<watchVars, counterVars, passwordVars, gameVars>>

\* open::that_detached(&url) returns Ok or Err; Err is printed to stderr.
LaunchUrl(opened) ==
    /\ message' = "LaunchUrl"
    /\ ~panicked
    /\ opened \in BOOLEAN
    /\ stderr' = IF opened THEN stderr ELSE TRUE
    /\ UNCHANGED <<show_context, config, panicked>>
    /\ UNCHANGED <<watchVars, counterVars, passwordVars, gameVars>>

NextCounter ==
    \/ Increment
    \/ Decrement

\* the counter page with the runs to the ends of the range of i64
NextCounterRange ==
    \/ Increment
    \/ Decrement
    \/ IncrementRun
    \/ DecrementRun

CounterSpec == Init /\ [][NextCounterRange]_vars

NextShell ==
    \/ ToggleContextPage
    \/ \E c \in Configs : UpdateConfig(c)
    \/ \E opened \in BOOLEAN : LaunchUrl(opened)

Next ==
    \/ NextGame
    \/ NextPassword
    \/ NextWatch
    \/ NextCounter
    \/ NextShell

Spec == Init /\ [][Next]_vars

(***************************************************************************)
(* The whole session, every message and the watch together, on a part of   *)
(* the state space small enough to enumerate: two secret numbers, two      *)
(* guess texts, one typed and one generated password, the counter within   *)
(* one of zero, the attempts and the messages in flight at most            *)
(* SessionDepth, and of every producer its first tick.                     *)
(***************************************************************************)
SessionSecrets == {50, 100}

SessionGuessTexts == { <<"5", "0">>, <<"a", "b", "c">> }

SessionPasswordTexts == { <<"P", "w", "!">> }

SessionIndexDraws == { [k \in 1..PasswordLen |-> (7 * k) % Len(CHARSET)] }

\* (only secret numbers within 1..100 are left out)
InSession ==
    /\ secret_number \in SecretMin..SecretMax => secret_number \in SessionSecrets
    /\ attempts_counter <= SessionDepth
    /\ net \in {-1, 0, 1}
    /\ ptime <= ProducerStart + 1
    /\ Len(channel) <= SessionDepth

SessionInit == Init /\ InSession

SessionNext ==
    \/ (\E v \in SessionGuessTexts : InputNumber(v)) /\ InSession'
    \/ ClearNumber /\ InSession'
    \/ CheckNumber /\ InSession'
    \/ NewGame /\ InSession'
    \/ (\E v \in SessionPasswordTexts : InputPassword(v)) /\ InSession'
    \/ ClearPassword /\ InSession'
    \/ (\E draw \in SessionIndexDraws : GeneratePassword(draw)) /\ InSession'
    \/ ToggleWatch /\ InSession'
    \/ subscription /\ InSession'
    \/ ProducerTick /\ InSession'
    \/ WatchTick /\ InSession'
    \/ Increment /\ InSession'
    \/ Decrement /\ InSession'
    \/ ToggleContextPage /\ InSession'
    \/ (\E c \in Configs : UpdateConfig(c)) /\ InSession'
    \/ (\E opened \in BOOLEAN : LaunchUrl(opened)) /\ InSession'

SessionSpec == SessionInit /\ [][SessionNext]_vars


(***************************************************************************)
(* Properties of the guessing game.                                        *)
(***************************************************************************)
\* the integers the guess texts of the model spell
SpelledValues == GuessInts \cup { r.val : r \in SpelledInts }

\* text is a decimal spelling of the integer g
Spells(text, g) ==
    \/ text = I64ToChars(g)
    \/ [text |-> text, val |-> g] \in SpelledInts

\* C1: a CheckNumber whose guess text spells the secret number sets the
\* feedback to the "Right!" text ending in the secret number and raises the
\* attempts by exactly 1.
C1_CorrectGuess ==
    [][\A g \in SpelledValues :
          (message' = "CheckNumber" /\ Spells(number, g) /\ g = secret_number)
              => /\ feedback' = "(U+2705) Right! This is the number "
                                    \o I64ToString(secret_number)
                 /\ attempts_counter' = attempts_counter + 1]_vars

C1_Witness ==
    /\ message = "CheckNumber"
    /\ \E g \in SpelledValues : Spells(number, g) /\ g = secret_number
    /\ feedback = RightFeedback(secret_number)
    /\ attempts_counter = 2

\* C2: a CheckNumber whose guess text spells an integer below the secret sets
\* the feedback to "My number is higher!", one above the secret sets it to
\* "My number is less!", and both raise the attempts by exactly 1; this covers
\* the smallest and the largest i64.
C2_HigherLower ==
    [][message' = "CheckNumber" =>
          /\ \A g \in SpelledValues : Spells(number, g) /\ g # secret_number =>
                 /\ g < secret_number => feedback' = "(U+23EB) My number is higher!"
                 /\ g > secret_number => feedback' = "(U+23EC) My number is less!"
                 /\ attempts_counter' = attempts_counter + 1
          /\ number = I64MinText =>
                 /\ feedback' = "(U+23EB) My number is higher!"
                 /\ attempts_counter' = attempts_counter + 1
          /\ number = I64MaxText =>
                 /\ feedback' = "(U+23EC) My number is less!"
                 /\ attempts_counter' = attempts_counter + 1]_vars

\* the scenario of the claim: secret 50, guess "200", first attempt
C2_Witness ==
    /\ message = "CheckNumber"
    /\ secret_number = 50
    /\ number = <<"2", "0", "0">>
    /\ feedback = LessFeedback
    /\ attempts_counter = 1

\* C3: a CheckNumber whose guess text is not a decimal i64 (empty, a lone
\* sign, letters, blanks, a fraction, a value beyond i64) sets the feedback to
\* "Enter a number!" and leaves the attempts count and its text unchanged.
C3_InvalidInput ==
    [][(message' = "CheckNumber" /\ number \in InvalidTexts)
          => /\ feedback' = "(U+274C) Enter a number!"
             /\ attempts_counter' = attempts_counter
             /\ attempts' = attempts]_vars

C3_Witness ==
    /\ message = "CheckNumber"
    /\ number = I64OverflowText
    /\ feedback = InvalidFeedback
    /\ attempts_counter = 1

\* C4: NewGame sets the attempts to 0 (count and text), the secret number to
\* a value in 1..100 and the guess text to the empty text.
C4_NewGameResets ==
    [][message' = "NewGame"
          => /\ attempts_counter' = 0
             /\ attempts' = "Number of attempts: 0"
             /\ secret_number' \in 1..100
             /\ number' = <<>>]_vars

\* a NewGame applied to a session with attempts made and a guess typed
C4_Witness ==
    /\ message = "NewGame"
    /\ attempts_counter = 0
    /\ number = <<>>
    /\ secret_number = 100

\* C5 as claimed: after NewGame the feedback is the text of a new session.
C5_Claimed == message = "NewGame" => feedback = InitialFeedback

\* C5: after NewGame the feedback is the new-game prompt, which is a fixed
\* text other than the one a new session holds.
C5_NewGamePrompt ==
    message = "NewGame" =>
        /\ feedback = "A new number has been guessed. Guess it!"
        /\ feedback # InitialFeedback

C5_Witness ==
    /\ message = "NewGame"
    /\ feedback = NewGameFeedback
    /\ attempts_counter = 0

(***************************************************************************)
(* Properties of the password page.                                        *)
(***************************************************************************)
LowerCaseLetters ==
    {"a", "b", "c", "d", "e", "f", "g", "h", "i", "j", "k", "l", "m",
     "n", "o", "p", "q", "r", "s", "t", "u", "v", "w", "x", "y", "z"}

Digits == {"0", "1", "2", "3", "4", "5", "6", "7", "8", "9"}

\* exactly 16 characters, each a lower-case letter or a digit
IsGenerated(text) ==
    /\ Len(text) = 16
    /\ \A i \in 1..Len(text) : text[i] \in LowerCaseLetters \cup Digits

\* C6 as claimed: the password is always empty or 16 characters of [a-z0-9].
C6_Claimed == password = <<>> \/ IsGenerated(password)

\* C6: the password is empty at the start, and a message other than
\* InputPassword applied to a password that is empty or 16 characters of
\* [a-z0-9] leaves one that is empty or 16 characters of [a-z0-9]; only the
\* text of an InputPassword can make it anything else.
C6_ExceptManualEdit ==
    /\ password = <<>>
    /\ [][(message' # "InputPassword" /\ (password = <<>> \/ IsGenerated(password)))
              => (password' = <<>> \/ IsGenerated(password'))]_vars

\* a message other than InputPassword, ClearPassword, has left the password empty
C6_Witness ==
    /\ message = "ClearPassword"
    /\ password = <<>>

\* C7: GeneratePassword leaves a password of exactly 16 characters, each a
\* member of [a-z0-9], whatever the password was.
C7_GeneratedShape ==
    [][message' = "GeneratePassword" => IsGenerated(password')]_vars

\* a password generated over a manually typed one, with letters and digits
C7_Witness ==
    /\ message = "GeneratePassword"
    /\ IsGenerated(password)
    /\ password[1] = "z"
    /\ password[2] = "0"

(***************************************************************************)
(* Properties of the watch.                                                *)
(***************************************************************************)
\* C8 as claimed: a WatchTick applied while the watch is active raises time
\* by exactly 1, and no step lowers time.
C8_Claimed ==
    [][/\ (message' = "WatchTick" /\ watch_is_active) => time' = time + 1
       /\ time' >= time]_vars

\* C9 as claimed: a step that starts and ends with the watch inactive does
\* not change time.
C9_Claimed ==
    [][(~watch_is_active /\ ~watch_is_active') => time' = time]_vars

\* C10: the values a producer task has sent since it was started are
\* 1, 2, 3, ... in this order, whatever time is, and they enter the channel
\* in this order.
C10_TickSequence ==
    /\ \A i \in 1..Len(sent) : sent[i] = i
    /\ Len(sent) <= Len(channel) =>
           SubSeq(channel, Len(channel) - Len(sent) + 1, Len(channel)) = sent

\* a producer restarted after time had reached 2 has sent one tick, a 1
C10_Witness ==
    /\ producer
    /\ time = 2
    /\ sent = <<1>>
    /\ channel = <<1>>

\* C11: ToggleWatch never changes time, in either direction, and time
\* changes only when a WatchTick is applied; so after toggling off and on
\* time keeps its value until the next WatchTick.
C11_ToggleKeepsTime ==
    [][/\ message' = "ToggleWatch" => time' = time
       /\ time' # time => message' = "WatchTick"]_vars

\* the watch toggled on again with time at 2, no tick applied since
C11_Witness ==
    /\ message = "ToggleWatch"
    /\ watch_is_active
    /\ ~producer
    /\ time = 2

\* C12 as claimed: in every state a producer is alive exactly when
\* watch_is_active is true.
C12_Claimed == producer <=> watch_is_active

\* C12: a producer is started or dropped only so as to agree with
\* watch_is_active, and once they agree only a ToggleWatch makes them
\* differ, until subscription() is consulted again.
C12_AgreesWhenConsulted ==
    [][/\ producer' # producer => (producer' <=> watch_is_active')
       /\ ((producer <=> watch_is_active) /\ message' # "ToggleWatch")
              => (producer' <=> watch_is_active')]_vars

\* toggled on, off and on again with one consultation: the producer of the
\* first start is the one alive
C12_Witness ==
    /\ message = "ToggleWatch"
    /\ watch_is_active
    /\ producer
    /\ sent = <<1, 2>>

(***************************************************************************)
(* Properties of the counter.                                              *)
(***************************************************************************)
\* signed order of two i64
I64Less(a, b) ==
    LET key(x) == <<(x[1] + 32768) % 65536, x[2], x[3], x[4]>>
    IN  a # b /\ DigitsLeq(key(a), key(b))

\* C16 as claimed: the messages can all be applied, and the counter is its
\* starting value plus the increments minus the decrements applied, so that
\* equal numbers of both return it to the starting value.
C16_Claimed ==
    /\ ~panicked
    /\ value_counter =
           WrappingAdd(I64FromInt(net),
                       CASE runs = 1 -> RunUp [] runs = -1 -> RunDown [] OTHER -> I64Zero)

\* C18 as claimed: an Increment completes and leaves a counter greater by
\* one, a Decrement completes and leaves a counter smaller by one, from
\* every value of the counter.
C18_Claimed ==
    [][/\ message' = "Increment" =>
              /\ ~panicked'
              /\ I64Less(value_counter, value_counter')
              /\ value_counter' = WrappingAdd(value_counter, <<0, 0, 0, 1>>)
       /\ message' = "Decrement" =>
              /\ ~panicked'
              /\ I64Less(value_counter', value_counter)
              /\ value_counter = WrappingAdd(value_counter', <<0, 0, 0, 1>>)]_vars

(***************************************************************************)
(* Properties of the whole session.                                        *)
(***************************************************************************)
\* C13: watch_is_active is false in a new session, a ToggleWatch negates it
\* and every other step leaves it as it is.
C13_OnlyToggleChangesActive ==
    /\ watch_is_active = FALSE
    /\ [][IF message' = "ToggleWatch"
          THEN watch_is_active' = ~watch_is_active
          ELSE watch_is_active' = watch_is_active]_vars

\* the watch still on after a tick and a NewGame
C13_Witness ==
    /\ message = "NewGame"
    /\ watch_is_active
    /\ time = 1

\* C14: the secret number is always within 1..100, and a step that changes
\* it is a NewGame.
C14_SecretOnlyByNewGame ==
    /\ [](secret_number \in 1..100)
    /\ [][secret_number' # secret_number => message' = "NewGame"]_vars

\* a correct guess and messages of the other pages, the secret in place
C14_Witness ==
    /\ message = "Increment"
    /\ secret_number = 50
    /\ feedback = RightFeedback(50)
    /\ password # <<>>

\* C15: the attempts are 0 in a new session and never negative; a NewGame
\* sets them to 0, a CheckNumber adds 1 if the guess text is a decimal i64
\* and nothing otherwise, and no other step changes them.
C15_AttemptsCountGuesses ==
    /\ attempts_counter = 0
    /\ [](attempts_counter >= 0)
    /\ [][attempts_counter' =
             CASE message' = "NewGame" -> 0
               [] message' = "CheckNumber" ->
                     attempts_counter + (IF number \in InvalidTexts THEN 0 ELSE 1)
               [] OTHER -> attempts_counter]_vars

\* one guess counted, then an empty guess text checked
C15_Witness ==
    /\ message = "CheckNumber"
    /\ number = <<>>
    /\ feedback = InvalidFeedback
    /\ attempts_counter = 1

\* the fields of the session other than time
sessionButTime ==
    <<watch_is_active, value_counter, password, secret_number, number, feedback,
      attempts_counter, attempts, show_context, config>>

\* C17: a LaunchUrl, opened or failed, changes no field of the session and
\* does not end the process, so that a next message can be applied; a
\* failure only leaves a line on stderr.
C17_LaunchUrlNoEffect ==
    /\ [][message' = "LaunchUrl" =>
              /\ time' = time
              /\ sessionButTime' = sessionButTime
              /\ ~panicked']_vars
    /\ [](message = "LaunchUrl" => ENABLED ToggleContextPage)

\* a failed LaunchUrl in a session with a password and the watch running
C17_Witness ==
    /\ message = "LaunchUrl"
    /\ stderr
    /\ password # <<>>
    /\ watch_is_active

\* C19: a WatchTick sets time to the value the message carries, whatever
\* time and watch_is_active are, and changes no other field of the session.
C19_TickAssignsTime ==
    [][message' = "WatchTick" =>
          /\ time' = Head(channel)
          /\ sessionButTime' = sessionButTime]_vars

\* a tick applied with the watch off and a guess typed
C19_Witness ==
    /\ message = "WatchTick"
    /\ ~watch_is_active
    /\ time = 1
    /\ number # <<>>

\* C20: the attempts text is "Number of attempts: " followed by the decimal
\* digits of attempts_counter, in every state.
C20_AttemptsTextInSync ==
    attempts = "Number of attempts: " \o I64ToString(attempts_counter)

C20_Witness ==
    /\ attempts_counter = 3
    /\ attempts = "Number of attempts: 3"

(***************************************************************************)
(* Properties of a game after a right guess.                               *)
(***************************************************************************)
\* text was found right by a CheckNumber since secret_number was chosen
WasRight(text) == \E i \in 1..Len(won) : won[i] = text

\* C21: a right guess does not end or restart the game: CheckNumber never
\* changes number or secret_number, and once a guess text was found right,
\* every further CheckNumber with that text in number sets the "Right!"
\* feedback again and raises attempts_counter by 1, until a NewGame; only
\* NewGame forgets a right guess.
C21_RightGuessRepeats ==
    /\ [][message' = "CheckNumber" =>
              /\ number' = number
              /\ secret_number' = secret_number]_vars
    /\ [][(message' = "CheckNumber" /\ WasRight(number)) =>
              /\ feedback' = RightFeedback(secret_number)
              /\ attempts_counter' = attempts_counter + 1
              /\ attempts' = AttemptsText(attempts_counter + 1)]_vars
    /\ [][message' # "NewGame" =>
              \A i \in 1..Len(won) : i <= Len(won') /\ won'[i] = won[i]]_vars

\* the same text found right twice in a row, in a game that began with a
\* wrong guess
C21_Witness ==
    /\ message = "CheckNumber"
    /\ attempts_counter = 3
    /\ Len(won) = 2
    /\ won[1] = won[2]
    /\ number = won[1]
====
